---- MODULE Spec2Model ----
(***************************************************************************)
(* PGliteManager (src/py_pglite/manager.py): the supervisor of one PGlite  *)
(* child process.  One supervisor instance ("A") is modelled together with *)
(* the operating system it talks to: the process table (its own children   *)
(* and foreign processes, among them the children of another supervisor    *)
(* "B"), the socket file of the configured endpoint, and the caller's      *)
(* working directory.  Every public method is a call that moves through    *)
(* the code's steps (pc); the child processes act between the steps.       *)
(***************************************************************************)
EXTENDS Integers, Sequences, FiniteSets, TLC

\* ------------------------------------------------------------------ bounds
MaxPid == 2            \* children this supervisor may spawn in one behaviour
Timeout == 2           \* config.timeout, counted in 0.5 s polling intervals
MaxRetries == 2        \* the largest max_retries wait_for_ready is called with
NForeign == 2          \* processes in the table that this supervisor did not spawn

None == 0              \* self.process is None
NProcs == MaxPid + NForeign      \* entries of the process table
OwnPids == 1..MaxPid

\* ------------------------------------------------------------------- paths
\* A path is the sequence of its characters.
SocketPath == <<"/", "a", "/", "s">>          \* config.socket_path
WorkDir == <<"/", "w">>                       \* config.work_dir / mkdtemp()
NoneCwd == <<"None">>                         \* psutil gave no cwd (info["cwd"] is None)
CallerDir == "orig"                           \* os.getcwd() of the calling process
ChildDir == "work"                            \* the caller's cwd after os.chdir(work_dir)
NoDir == "none"                               \* self._original_cwd is None

\* The index of the last "/" of p (0 when there is none).
RECURSIVE LastSlash(_, _)
LastSlash(p, i) ==
  IF i = 0 THEN 0
  ELSE IF p[i] = "/" THEN i
  ELSE LastSlash(p, i - 1)

\* str(Path(p).parent)
Parent(p) ==
  LET i == LastSlash(p, Len(p))
  IN  IF i <= 1 THEN SubSeq(p, 1, i) ELSE SubSeq(p, 1, i - 1)

MySocketDir == Parent(SocketPath)

\* Python's "s in t" on strings: s occurs in t as a contiguous run.
IsSubstr(s, t) ==
  \E i \in 0..(Len(t) - Len(s)) : SubSeq(t, i + 1, i + Len(s)) = s

\* manager.py:201, the test `my_socket_dir in proc_cwd or proc_cwd in my_socket_dir`
DirMatch(my, pcwd) == IsSubstr(my, pcwd) \/ IsSubstr(pcwd, my)

\* ------------------------------------------------------------------- state
VARIABLES
  process,          \* self.process: None or the pid of the Popen handle held
  pc,               \* where the current call stands ("idle": no call in progress)
  op,               \* the public method called last
  result,           \* how that call ended ("pending" while it runs)
  failed,           \* the last start() that spawned a child raised a startup error
                    \* and no stop() has run since (the handle's state is Failed)
  pidAtCall,        \* self.process when that call began
  sockAtCall,       \* the endpoint file when that call began (recorded for
                    \* start(), stop() and restart())
  elapsed,          \* polling intervals slept in start()'s readiness loop
  ready_logged,     \* start()'s local flag
  ri,               \* the process-table entry _kill_existing_processes is at
  cwd,              \* the calling process's working directory
  original_cwd,     \* self._original_cwd
  procs,            \* the children this supervisor spawned: pid -> state
  ptable,           \* the foreign processes in the table that the scan of
                    \* _kill_existing_processes in progress iterates over
  sockFile,         \* the endpoint file: absent, stale, or bound by a pid
  sockReady,        \* the process bound to the endpoint file accepts connections
  rmFailed,         \* the call logged "Failed to clean up socket"
  nextPid,          \* the pid the next spawned child gets
  attempt,          \* wait_for_ready_basic: connection attempts made in the call
  max_retries,      \* wait_for_ready_basic's argument
  delay,            \* wait_for_ready_basic's argument (its sign)
  cleanup_on_exit   \* config.cleanup_on_exit

vars == <<process, pc, op, result, failed, pidAtCall, sockAtCall, elapsed,
          ready_logged, ri, cwd, original_cwd, procs, ptable, sockFile, sockReady, rmFailed, nextPid,
          attempt, max_retries, delay, cleanup_on_exit>>

NoFile == 0
Stale == -1   \* the file of a dead earlier run: nobody is bound to it

\* How a process takes signals:
\*   normal: dies when SIGKILL is delivered
\*   stuck:  is not reaped after SIGKILL (uninterruptible)
\*   denied: signalling it fails (AccessDenied, PermissionError)
Kinds == {"normal", "stuck", "denied"}

Alive(p) == procs[p].st \in {"init", "bound"}

\* A process that has exited: no signal is pending on it any more.
Dead == [st |-> "dead", term |-> FALSE, kill |-> FALSE, kind |-> "normal"]

\* Groups of variables, for the frames of the actions.
config == <<cleanup_on_exit>>
call == <<op, pidAtCall, sockAtCall>>
locals == <<elapsed, ready_logged, ri>>
dirs == <<cwd, original_cwd>>
sock == <<sockFile, sockReady>>
retry == <<attempt, max_retries, delay>>

\* The foreign processes a table may hold.
BChildPrefix == [owner |-> "B", pcwd |-> <<"/", "a", "b">>, launcher |-> TRUE, kind |-> "normal"]
BChildOther == [owner |-> "B", pcwd |-> <<"/", "c">>, launcher |-> TRUE, kind |-> "normal"]
BChildRoot == [owner |-> "B", pcwd |-> <<"/">>, launcher |-> TRUE, kind |-> "normal"]
Leftover == [owner |-> "old", pcwd |-> <<"/", "a">>, launcher |-> TRUE, kind |-> "normal"]
LeftoverStuck == [owner |-> "old", pcwd |-> <<"/", "a">>, launcher |-> TRUE, kind |-> "stuck"]
LeftoverDenied == [owner |-> "old", pcwd |-> <<"/", "a">>, launcher |-> TRUE, kind |-> "denied"]
LeftoverNoCwd == [owner |-> "old", pcwd |-> NoneCwd, launcher |-> TRUE, kind |-> "normal"]
Unrelated == [owner |-> "other", pcwd |-> <<"/", "a">>, launcher |-> FALSE, kind |-> "normal"]

\* The foreign halves of the process tables a scan may find, in
\* process_iter's order; the first NForeign entries of a table are in it.
ForeignTables ==
  { <<BChildPrefix, BChildOther, BChildRoot>>,
    <<LeftoverStuck, Leftover, Unrelated>>,
    <<LeftoverDenied, Leftover, LeftoverNoCwd>>,
    <<LeftoverNoCwd, Unrelated, Leftover>> }

\* The table as process_iter yields it: every process alive, none signalled.
TableOf(t) ==
  [i \in 1..NForeign |->
     LET e == t[((i - 1) % Len(t)) + 1]
     IN  [owner |-> e.owner, pcwd |-> e.pcwd, launcher |-> e.launcher,
          kind |-> e.kind, st |-> "init", kill |-> FALSE]]

\* Entry i of the whole table: the supervisor's own children come first
\* (their cwd is the work directory), the foreign processes after them.
TEntry(i) ==
  IF i \in OwnPids
    THEN [owner |-> "A", pcwd |-> WorkDir, launcher |-> TRUE,
          kind |-> procs[i].kind, st |-> procs[i].st, kill |-> procs[i].kill]
    ELSE ptable[i - MaxPid]

Init ==
  /\ process = None
  /\ pc = "idle"
  /\ op = "init"
  /\ result = "ok"
  /\ failed = FALSE
  /\ pidAtCall = None
  /\ elapsed = 0
  /\ ready_logged = FALSE
  /\ ri = 1
  /\ cwd = CallerDir
  /\ original_cwd = NoDir
  /\ ptable = <<>>
  /\ procs = [p \in OwnPids |->
               [st |-> "unborn", term |-> FALSE, kill |-> FALSE, kind |-> "normal"]]
  /\ sockFile \in {NoFile, Stale}
  /\ sockAtCall = sockFile
  /\ sockReady = FALSE
  /\ rmFailed = FALSE
  /\ nextPid = 1
  /\ attempt = 0
  /\ max_retries = 0
  /\ delay = 0
  /\ cleanup_on_exit \in BOOLEAN

\* ------------------------------------------------------- the child processes
\* A child binds the endpoint: the launcher removes any old file and creates
\* its own; it may or may not accept connections yet.
ChildBind(p) ==
  /\ procs[p].st = "init"
  /\ procs' = [procs EXCEPT ![p].st = "bound"]
  /\ sockFile' = p
  /\ \E r \in BOOLEAN : sockReady' = r
  /\ UNCHANGED <<process, pc, result, failed, call, locals, dirs, config, retry, rmFailed,
                 ptable, nextPid>>

\* The child bound to the endpoint file begins to accept connections.
ChildListen(p) ==
  /\ procs[p].st = "bound"
  /\ sockFile = p
  /\ ~sockReady
  /\ sockReady' = TRUE
  /\ UNCHANGED <<process, pc, result, failed, call, locals, dirs, config, retry, procs,
                 sockFile, rmFailed, ptable, nextPid>>

\* A child exits by itself: a crash, or its SIGTERM handler.  On the way out
\* it may remove the endpoint file it bound.  A stuck process does not exit.
ChildExit(p) ==
  /\ Alive(p)
  /\ procs[p].kind # "stuck"
  /\ procs' = [procs EXCEPT ![p] = Dead]
  /\ \E rm \in BOOLEAN :
       IF rm /\ sockFile = p
         THEN sockFile' = NoFile /\ sockReady' = FALSE
         ELSE UNCHANGED sock
  /\ UNCHANGED <<process, pc, result, failed, call, locals, dirs, config, retry, rmFailed,
                 ptable, nextPid>>

\* The kernel delivers a pending SIGKILL; a stuck process is not reaped.
KernelKill(p) ==
  /\ Alive(p)
  /\ procs[p].kill
  /\ procs[p].kind # "stuck"
  /\ procs' = [procs EXCEPT ![p] = Dead]
  /\ UNCHANGED <<process, pc, result, failed, call, locals, dirs, config, retry, sock,
                 rmFailed, ptable, nextPid>>

\* ------------------------------------------------------------ the supervisor
\* An is_running that trusts the handle.
is_running_handle_only == process # None

\* is_running(): a handle is held and poll() reports no exit status.
is_running == process # None /\ Alive(process)

\* A _cleanup_socket that does not unlink.
cleanup_socket_noop(ok) ==
  /\ UNCHANGED sock
  /\ rmFailed' = FALSE

\* _cleanup_socket(): unlink the endpoint file when it exists; ok tells
\* whether the unlink succeeds (a failure is logged, never raised).
cleanup_socket(ok) ==
  IF sockFile # NoFile /\ ok
    THEN sockFile' = NoFile /\ sockReady' = FALSE /\ rmFailed' = FALSE
    ELSE UNCHANGED sock /\ rmFailed' = (sockFile # NoFile)

\* A public method is called: only between calls (single-threaded caller).
\* A call that will spawn is made only while a pid is left for the child.
StartCall ==
  /\ pc = "idle"
  /\ nextPid <= MaxPid \/ process # None
  /\ pc' = "s_entry"
  /\ op' = "start"
  /\ pidAtCall' = process
  /\ sockAtCall' = sockFile
  /\ result' = "pending"
  /\ rmFailed' = FALSE
  /\ attempt' = 0 /\ max_retries' = 0 /\ delay' = 0
  /\ UNCHANGED <<process, failed, locals, dirs, config, procs, sock, ptable, nextPid>>

StopCall ==
  /\ pc = "idle"
  /\ pc' = "t_entry"
  /\ op' = "stop"
  /\ pidAtCall' = process
  /\ sockAtCall' = sockFile
  /\ result' = "pending"
  /\ rmFailed' = FALSE
  /\ attempt' = 0 /\ max_retries' = 0 /\ delay' = 0
  /\ UNCHANGED <<process, failed, locals, dirs, config, procs, sock, ptable, nextPid>>

\* restart(): `if self.is_running(): self.stop()`, then `self.start()`.
RestartCall ==
  /\ pc = "idle"
  /\ nextPid <= MaxPid \/ (process # None /\ ~is_running)
  /\ pc' = IF is_running THEN "t_entry" ELSE "s_entry"
  /\ op' = "restart"
  /\ pidAtCall' = process
  /\ sockAtCall' = sockFile
  /\ result' = "pending"
  /\ rmFailed' = FALSE
  /\ attempt' = 0 /\ max_retries' = 0 /\ delay' = 0
  /\ UNCHANGED <<process, failed, locals, dirs, config, procs, sock, ptable, nextPid>>

\* A start() without the guard: it always goes on to spawn.
StartEntryNoGuard ==
  /\ pc = "s_entry"
  /\ pc' = "s_reclaim"
  /\ \E t \in ForeignTables : ptable' = TableOf(t)
  /\ UNCHANGED <<process, result, failed, call, locals, dirs, config, retry, procs, sock,
                 rmFailed, nextPid>>

\* start(), lines 233-235: `if self.process is not None: return`.  Else
\* _kill_existing_processes begins, on the process table of the moment.
StartEntry ==
  /\ pc = "s_entry"
  /\ IF process # None
       THEN /\ pc' = "idle"
            /\ result' = "ok"
            /\ UNCHANGED ptable
       ELSE /\ pc' = "s_reclaim"
            /\ \E t \in ForeignTables : ptable' = TableOf(t)
            /\ UNCHANGED result
  /\ UNCHANGED <<process, failed, call, locals, dirs, config, retry, procs, sock, rmFailed,
                 nextPid>>

\* The entry of the process table is a launcher: some argument of its command
\* line contains "pglite_manager.js".
CmdMatch(e) == e.launcher

\* What _kill_existing_processes does with table entry e:
\*   "skip"   the entry is passed over (not a launcher, another directory, or
\*            gone: process_iter does not yield it / NoSuchProcess);
\*   "error"  the cwd is None: the `in` test raises TypeError, which only the
\*            outer handler catches, ending the scan;
\*   "denied" kill() raises AccessDenied: `continue`;
\*   "kill"   kill() is sent and wait(timeout=5) follows.
ReapVerdict(e) ==
  IF e.st \notin {"init", "bound"} \/ ~CmdMatch(e) THEN "skip"
  ELSE IF e.pcwd = NoneCwd THEN "error"
  ELSE IF ~DirMatch(MySocketDir, e.pcwd) THEN "skip"
  ELSE IF e.kind = "denied" THEN "denied"
  ELSE "kill"

\* _kill_existing_processes, one table entry per step (process_iter is a
\* generator).  kill() is followed by wait(timeout=5): the process is reaped
\* within the bound, or psutil.TimeoutExpired is raised, which the inner
\* handler (NoSuchProcess, AccessDenied) does not catch: the outer handler
\* logs it and the scan ends.
ReclaimStep ==
  /\ pc = "s_reclaim"
  /\ LET v == ReapVerdict(TEntry(ri))
         next == IF ri < NProcs THEN ri + 1 ELSE 1
         more == IF ri < NProcs THEN "s_reclaim" ELSE "s_cleanup"
     IN  IF v = "kill"
           THEN \E reaped \in BOOLEAN :
                  /\ reaped => TEntry(ri).kind # "stuck"
                  /\ IF ri \in OwnPids
                       THEN /\ procs' = [procs EXCEPT ![ri] =
                                           IF reaped THEN Dead ELSE [@ EXCEPT !.kill = TRUE]]
                            /\ UNCHANGED ptable
                       ELSE /\ ptable' = [ptable EXCEPT ![ri - MaxPid] =
                                            [@ EXCEPT !.kill = TRUE,
                                                      !.st = IF reaped THEN "dead" ELSE @]]
                            /\ UNCHANGED procs
                  /\ ri' = IF reaped THEN next ELSE 1
                  /\ pc' = IF reaped THEN more ELSE "s_cleanup"
           ELSE /\ UNCHANGED <<procs, ptable>>
                /\ ri' = IF v = "error" THEN 1 ELSE next
                /\ pc' = IF v = "error" THEN "s_cleanup" ELSE more
  /\ UNCHANGED <<process, result, failed, call, elapsed, ready_logged, dirs, config, retry,
                 sock, rmFailed, nextPid>>

\* A start() that goes on to the work directory without the removal.
StartCleanupNoRemoval ==
  /\ pc = "s_cleanup"
  /\ rmFailed' = FALSE
  /\ pc' = "s_setup"
  /\ ptable' = <<>>
  /\ UNCHANGED <<process, result, failed, call, locals, dirs, config, retry, procs, sock,
                 nextPid>>

\* start(), line 239: self._cleanup_socket().  The scan is over: what became
\* of the foreign processes is of no further concern to this supervisor.
StartCleanup ==
  /\ pc = "s_cleanup"
  /\ \E ok \in BOOLEAN : cleanup_socket(ok)
  /\ pc' = "s_setup"
  /\ ptable' = <<>>
  /\ UNCHANGED <<process, result, failed, call, locals, dirs, config, retry, procs, nextPid>>

\* start(), lines 242-244: the work directory, then os.chdir into it.
StartSetup ==
  /\ pc = "s_setup"
  /\ original_cwd' = cwd
  /\ cwd' = ChildDir
  /\ pc' = "s_install"
  /\ UNCHANGED <<process, result, failed, call, locals, config, retry, procs, sock, rmFailed,
                 ptable, nextPid>>

\* A `finally` that leaves the working directory where it is.
RestoreCwdSkipped == cwd

\* start()'s `finally`, lines 334-337: back to the directory of the caller.
RestoreCwd == IF original_cwd # NoDir THEN original_cwd ELSE cwd

\* The errors start() raises from its readiness loop.
StartupErrors == {"StartupDied", "StartupTimeout"}

\* start() ends with res, by return or by raise, through the `finally`; its
\* locals are gone.
StartEnds(res) ==
  /\ cwd' = RestoreCwd
  /\ pc' = "idle"
  /\ result' = res
  /\ elapsed' = 0
  /\ ready_logged' = FALSE
  /\ UNCHANGED <<original_cwd, ri>>

\* start(), line 248: _install_dependencies; npm may fail, the error is raised.
StartInstall ==
  /\ pc = "s_install"
  /\ \E fails \in BOOLEAN :
       IF fails
         THEN StartEnds("InstallError")
         ELSE pc' = "s_spawn" /\ UNCHANGED <<result, locals, dirs>>
  /\ UNCHANGED <<process, failed, call, config, retry, procs, sock, rmFailed, ptable,
                 nextPid>>

\* start(), lines 267-280: Popen (which may fail: no node), then the loop's
\* locals.  The child is born with a kind.
StartSpawn ==
  /\ pc = "s_spawn"
  /\ \E fails \in BOOLEAN :
       IF fails
         THEN /\ StartEnds("SpawnError")
              /\ UNCHANGED <<process, procs, nextPid>>
         ELSE /\ \E k \in Kinds :
                   procs' = [procs EXCEPT ![nextPid] =
                               [st |-> "init", term |-> FALSE, kill |-> FALSE, kind |-> k]]
              /\ process' = nextPid
              /\ nextPid' = nextPid + 1
              /\ pc' = "s_loop"
              /\ UNCHANGED <<result, locals, dirs>>
  /\ UNCHANGED <<failed, call, config, retry, sock, rmFailed, ptable>>

\* The connect-and-close probe of lines 307-310 succeeds when the process
\* bound to the endpoint file is alive and accepts connections.
Handshake == sockFile \in OwnPids /\ Alive(sockFile) /\ sockReady

\* Line 299: `socket_path.exists() and not ready_logged`.
ProbeDue == sockFile # NoFile /\ ~ready_logged

\* A readiness loop that trusts the endpoint file: no handshake.
StartLoopFileOnly ==
  /\ pc = "s_loop"
  /\ elapsed < Timeout
  /\ IF ~Alive(process)
       THEN /\ StartEnds("StartupDied")
            /\ failed' = TRUE
       ELSE IF ProbeDue
         THEN /\ StartEnds("ok")
              /\ failed' = FALSE
         ELSE /\ ready_logged' = ready_logged
              /\ elapsed' = elapsed + 1
              /\ UNCHANGED <<pc, result, failed, dirs, ri>>
  /\ UNCHANGED <<process, call, config, retry, procs, sock, rmFailed, ptable, nextPid>>

\* One iteration of the readiness loop, lines 282-317.
StartLoop ==
  /\ pc = "s_loop"
  /\ elapsed < Timeout
  /\ IF ~Alive(process)
       THEN /\ StartEnds("StartupDied")
            /\ failed' = TRUE
       ELSE IF ProbeDue /\ Handshake
         THEN /\ StartEnds("ok")
              /\ failed' = FALSE
         ELSE /\ ready_logged' = (ready_logged \/ ProbeDue)
              /\ elapsed' = elapsed + 1
              /\ UNCHANGED <<pc, result, failed, dirs, ri>>
  /\ UNCHANGED <<process, call, config, retry, procs, sock, rmFailed, ptable, nextPid>>

\* The loop's `else`, lines 318-322: the timeout elapsed.  A live child is
\* sent terminate(); signalling a "denied" child raises, and the error leaves
\* start() through the `finally`.
StartTimeout ==
  /\ pc = "s_loop"
  /\ elapsed >= Timeout
  /\ IF ~Alive(process)
       THEN /\ StartEnds("StartupTimeout")
            /\ failed' = TRUE
            /\ UNCHANGED procs
       ELSE IF procs[process].kind = "denied"
         THEN /\ StartEnds("SignalError")
              /\ failed' = TRUE
              /\ UNCHANGED procs
         ELSE /\ procs' = [procs EXCEPT ![process].term = TRUE]
              /\ pc' = "s_termwait"
              /\ UNCHANGED <<result, failed, locals, dirs>>
  /\ UNCHANGED <<process, call, config, retry, sock, rmFailed, ptable, nextPid>>

\* Lines 323-327: wait(timeout=5); on TimeoutExpired, kill().
StartTermWait ==
  /\ pc = "s_termwait"
  /\ IF ~Alive(process)
       THEN /\ StartEnds("StartupTimeout")
            /\ failed' = TRUE
            /\ UNCHANGED procs
       ELSE /\ procs' = [procs EXCEPT ![process].kill = TRUE]
            /\ pc' = "s_killwait"
            /\ UNCHANGED <<result, failed, locals, dirs>>
  /\ UNCHANGED <<process, call, config, retry, sock, rmFailed, ptable, nextPid>>

\* A final wait with a bound, as stop() has: it gives up on a live child.
StartKillWaitBounded ==
  /\ pc = "s_killwait"
  /\ StartEnds("StartupTimeout")
  /\ failed' = TRUE
  /\ UNCHANGED <<process, call, config, retry, procs, sock, rmFailed, ptable, nextPid>>

\* Line 328: self.process.wait() with no timeout returns once the child has
\* exited, and not before; then lines 330-332 raise.
StartKillWait ==
  /\ pc = "s_killwait"
  /\ ~Alive(process)
  /\ StartEnds("StartupTimeout")
  /\ failed' = TRUE
  /\ UNCHANGED <<process, call, config, retry, procs, sock, rmFailed, ptable, nextPid>>

\* A `finally` that keeps the handle.
StopFinallyKeepsHandle ==
  /\ process' = process
  /\ failed' = FALSE
  /\ IF cleanup_on_exit
       THEN \E ok \in BOOLEAN : cleanup_socket(ok)
       ELSE UNCHANGED <<sock, rmFailed>>
  /\ pc' = IF op = "restart" THEN "s_entry" ELSE "idle"
  /\ result' = IF op = "restart" THEN "pending" ELSE "ok"

\* stop()'s `finally`, lines 367-370, and the return: the handle is dropped,
\* the endpoint file removed when cleanup_on_exit is set.  Under restart()
\* the call goes on with start().
StopFinally ==
  /\ process' = None
  /\ failed' = FALSE
  /\ IF cleanup_on_exit
       THEN \E ok \in BOOLEAN : cleanup_socket(ok)
       ELSE UNCHANGED <<sock, rmFailed>>
  /\ pc' = IF op = "restart" THEN "s_entry" ELSE "idle"
  /\ result' = IF op = "restart" THEN "pending" ELSE "ok"

\* A stop() that begins with the forced kill.
StopEntryKillsFirst ==
  /\ pc = "t_entry"
  /\ IF process = None
       THEN /\ pc' = "idle"
            /\ result' = "ok"
            /\ UNCHANGED <<process, failed, procs, sock, rmFailed>>
       ELSE IF Alive(process) /\ procs[process].kind = "denied"
         THEN /\ StopFinally
              /\ UNCHANGED procs
         ELSE /\ procs' = [procs EXCEPT ![process].kill = Alive(process)]
              /\ pc' = "t_wait"
              /\ UNCHANGED <<process, result, failed, sock, rmFailed>>
  /\ UNCHANGED <<call, locals, dirs, config, retry, ptable, nextPid>>

\* A stop() without the early return: the `finally` runs with no handle too.
StopEntryNoReturn ==
  /\ pc = "t_entry"
  /\ IF process = None \/ (Alive(process) /\ procs[process].kind = "denied")
       THEN /\ StopFinally
            /\ UNCHANGED procs
       ELSE /\ procs' = [procs EXCEPT ![process].term = Alive(process)]
            /\ pc' = "t_wait"
            /\ UNCHANGED <<process, result, failed, sock, rmFailed>>
  /\ UNCHANGED <<call, locals, dirs, config, retry, ptable, nextPid>>

\* stop(), lines 341-347: return when no handle is held; else terminate().
\* Popen.terminate() polls first and sends nothing to a child that has
\* exited; signalling a "denied" child raises, which `except Exception`
\* catches before the `finally`.
StopEntry ==
  /\ pc = "t_entry"
  /\ IF process = None
       THEN /\ pc' = "idle"
            /\ result' = "ok"
            /\ UNCHANGED <<process, failed, procs, sock, rmFailed>>
       ELSE IF Alive(process) /\ procs[process].kind = "denied"
         THEN /\ StopFinally
              /\ UNCHANGED procs
         ELSE /\ procs' = [procs EXCEPT ![process].term = Alive(process)]
              /\ pc' = "t_wait"
              /\ UNCHANGED <<process, result, failed, sock, rmFailed>>
  /\ UNCHANGED <<call, locals, dirs, config, retry, ptable, nextPid>>

\* A stop() that gives up after the graceful wait, with no forced kill.
StopWaitGivesUp ==
  /\ pc = "t_wait"
  /\ StopFinally
  /\ UNCHANGED <<call, locals, dirs, config, retry, procs, ptable, nextPid>>

\* Lines 350-358: wait(timeout=5); the child has exited ("stopped
\* gracefully"), or TimeoutExpired and kill().
StopWait ==
  /\ pc = "t_wait"
  /\ IF ~Alive(process)
       THEN /\ StopFinally
            /\ UNCHANGED procs
       ELSE /\ procs' = [procs EXCEPT ![process].kill = TRUE]
            /\ pc' = "t_killwait"
            /\ UNCHANGED <<process, result, failed, sock, rmFailed>>
  /\ UNCHANGED <<call, locals, dirs, config, retry, ptable, nextPid>>

\* A final wait with no bound, as start()'s timeout path has.
StopKillWaitUnbounded ==
  /\ pc = "t_killwait"
  /\ ~Alive(process)
  /\ StopFinally
  /\ UNCHANGED <<call, locals, dirs, config, retry, procs, ptable, nextPid>>

\* Lines 359-363: wait(timeout=2); reaped ("stopped forcefully") or not
\* ("Failed to kill"): either way the `finally` follows.
StopKillWait ==
  /\ pc = "t_killwait"
  /\ StopFinally
  /\ UNCHANGED <<call, locals, dirs, config, retry, procs, ptable, nextPid>>

\* What the configuration derives for an accessor (PGliteConfig).
ConfigGet(kind) ==
  CASE kind = "get_connection_string" -> "connection_string"
    [] kind = "get_dsn" -> "dsn"
    [] kind = "get_psycopg_uri" -> "psycopg_uri"

Accessors == {"get_connection_string", "get_dsn", "get_psycopg_uri"}

\* An accessor is called.
AccessorCall(kind) ==
  /\ pc = "idle"
  /\ pc' = "a_entry"
  /\ op' = kind
  /\ pidAtCall' = process
  /\ sockAtCall' = NoFile
  /\ result' = "pending"
  /\ rmFailed' = FALSE
  /\ attempt' = 0 /\ max_retries' = 0 /\ delay' = 0
  /\ UNCHANGED <<process, failed, locals, dirs, config, procs, sock, ptable, nextPid>>

\* get_connection_string / get_dsn / get_psycopg_uri: raise unless
\* is_running(), else the configuration's string.
Accessor ==
  /\ pc = "a_entry"
  /\ pc' = "idle"
  /\ result' = IF is_running THEN ConfigGet(op) ELSE "NotRunning"
  /\ UNCHANGED <<process, failed, call, locals, dirs, config, retry, procs, sock, rmFailed,
                 ptable, nextPid>>

\* The delays wait_for_ready is called with, up to what time.sleep makes of
\* them: a negative one (ValueError) and zero (accepted, as every positive
\* length is).
Delays == {-1, 0}

\* wait_for_ready(max_retries, delay) is called; it is an alias of
\* wait_for_ready_basic (line 447).
WaitCall(m, d) ==
  /\ pc = "idle"
  /\ pc' = "w_loop"
  /\ op' = "wait_for_ready"
  /\ pidAtCall' = process
  /\ sockAtCall' = NoFile
  /\ result' = "pending"
  /\ rmFailed' = FALSE
  /\ attempt' = 0
  /\ max_retries' = m
  /\ delay' = d
  /\ UNCHANGED <<process, failed, locals, dirs, config, procs, sock, ptable, nextPid>>

\* What check_connection(dsn) may do: connect (only to a live child that
\* accepts connections), report no connection, or raise.
ProbeOutcomes == {"ok", "refused", "raise"}

\* wait_for_ready_basic returns or raises with res; its arguments are gone.
WaitEnds(res) ==
  /\ pc' = "idle"
  /\ result' = res
  /\ max_retries' = 0
  /\ delay' = 0

\* A loop that goes on probing past max_retries.
WaitAttemptNoBound ==
  /\ pc = "w_loop"
  /\ attempt' = attempt + 1
  /\ \E o \in ProbeOutcomes :
       /\ o = "ok" => Handshake
       /\ IF o = "ok" THEN WaitEnds("True") ELSE UNCHANGED <<pc, result, max_retries, delay>>
  /\ UNCHANGED <<process, failed, call, locals, dirs, config, procs, sock, rmFailed,
                 ptable, nextPid>>

\* Lines 413-430, one iteration of `for attempt in range(max_retries)`: the
\* probe; True at once when it connects; an exception of the probe is
\* caught and logged; then time.sleep(delay) before the next attempt, which
\* raises ValueError for a negative delay, outside the `try`.
WaitAttempt ==
  /\ pc = "w_loop"
  /\ attempt < max_retries
  /\ attempt' = attempt + 1
  /\ \E o \in ProbeOutcomes :
       /\ o = "ok" => Handshake
       /\ IF o = "ok"
            THEN WaitEnds("True")
            ELSE IF attempt < max_retries - 1 /\ delay < 0
              THEN WaitEnds("ValueError")
              ELSE UNCHANGED <<pc, result, max_retries, delay>>
  /\ UNCHANGED <<process, failed, call, locals, dirs, config, procs, sock, rmFailed,
                 ptable, nextPid>>

\* Line 432: the loop is exhausted, `return False`.
WaitExhausted ==
  /\ pc = "w_loop"
  /\ attempt >= max_retries
  /\ WaitEnds("False")
  /\ UNCHANGED <<process, failed, call, locals, dirs, config, attempt, procs, sock,
                 rmFailed, ptable, nextPid>>

\* ------------------------------------------------------------ specification
\* The steps of a call in progress.
SupStep ==
  \/ StartEntry
  \/ ReclaimStep
  \/ StartCleanup
  \/ StartSetup
  \/ StartInstall
  \/ StartSpawn
  \/ StartLoop
  \/ StartTimeout
  \/ StartTermWait
  \/ StartKillWait
  \/ StopEntry
  \/ StopWait
  \/ StopKillWait
  \/ Accessor
  \/ WaitAttempt
  \/ WaitExhausted

Call ==
  \/ StartCall
  \/ StopCall
  \/ RestartCall
  \/ \E kind \in Accessors : AccessorCall(kind)
  \/ \E m \in 0..MaxRetries, d \in Delays : WaitCall(m, d)

Env ==
  \/ \E p \in OwnPids : ChildBind(p)
  \/ \E p \in OwnPids : ChildListen(p)
  \/ \E p \in OwnPids : ChildExit(p)
  \/ \E p \in OwnPids : KernelKill(p)

Next == SupStep \/ Call \/ Env

Spec == Init /\ [][Next]_vars

\* The caller's thread runs the call it is in; the kernel delivers a pending
\* SIGKILL to a process that can be reaped.
FairSpec ==
  /\ Init
  /\ [][Next]_vars
  /\ WF_vars(SupStep)
  /\ \A p \in OwnPids : WF_vars(KernelKill(p))

\* ------------------------------------------------------------------- claims
StartPcs == {"s_entry", "s_reclaim", "s_cleanup", "s_setup", "s_install", "s_spawn",
             "s_loop", "s_termwait", "s_killwait"}
StopPcs == {"t_entry", "t_wait", "t_killwait"}

\* The children this supervisor spawned that are alive.
LiveChildren == {p \in OwnPids : Alive(p)}

\* C1: after a start() that failed (the child exited during startup, or the
\* timeout elapsed), the next start(), with no stop() in between, goes on to
\* conflict reclamation (and from there to endpoint removal and spawn) rather
\* than returning at once.
C1_FailedStartIsRetried ==
  [][(pc = "s_entry" /\ op = "start" /\ failed /\ pc' # pc) => pc' = "s_reclaim"]_vars

\* C2: a restart() that returns has spawned a child: the handle holds a
\* process identity other than the one held when restart() was called, and
\* that process is alive (is_running() is true).
C2_RestartYieldsNewRunningChild ==
  [][(op = "restart" /\ pc # "idle" /\ pc' = "idle" /\ result' = "ok")
       => (/\ process' # None
           /\ process' # pidAtCall
           /\ procs'[process'].st \in {"init", "bound"})]_vars

\* C3 as stated: start() with a handle held and its process alive returns
\* without spawning, killing or deleting the endpoint file, and exactly one
\* child of this supervisor is alive.
C3_StartIdempotentOneLiveChild ==
  [][(pc = "s_entry" /\ process # None /\ Alive(process) /\ pc' # pc)
       => (/\ pc' = "idle"
           /\ result' = "ok"
           /\ UNCHANGED <<process, procs, sock, nextPid, ptable>>
           /\ Cardinality(LiveChildren) = 1)]_vars

\* C3 as amended: start() with a handle held and its process alive returns
\* without spawning, killing or deleting the endpoint file; the held child
\* stays alive with the same identity and the set of live children is as
\* it was.
C3_StartIdempotent ==
  [][(pc = "s_entry" /\ process # None /\ Alive(process) /\ pc' # pc)
       => (/\ pc' = "idle"
           /\ result' = "ok"
           /\ UNCHANGED <<process, procs, sock, nextPid, ptable>>
           /\ process' \in {p \in OwnPids : procs'[p].st \in {"init", "bound"}})]_vars

\* C3's case: a start() that found its child alive has returned.
C3_Witness ==
  /\ pc = "idle" /\ op = "start" /\ result = "ok"
  /\ pidAtCall # None /\ process = pidAtCall /\ Alive(process)

\* C4: stop() never raises and ends with the handle absent, however the
\* teardown went.
C4_StopNeverRaisesAndClears ==
  [][(pc \in StopPcs /\ pc' \notin StopPcs)
       => (/\ process' = None
           /\ IF op = "restart"
                THEN pc' = "s_entry"
                ELSE pc' = "idle" /\ result' = "ok")]_vars

\* C4's case: stop() has returned although the child it force-killed was
\* not reaped.
C4_Witness ==
  /\ pc = "idle" /\ op = "stop" /\ result = "ok"
  /\ process = None /\ pidAtCall # None
  /\ Alive(pidAtCall) /\ procs[pidAtCall].kill

\* C5: once the startup timeout has elapsed in start()'s loop, start()
\* eventually raises the timeout error, whatever the child does with the
\* signals it is sent (a child that can be signalled).
C5_TimeoutAlwaysRaises ==
  (pc = "s_loop" /\ elapsed >= Timeout /\ procs[process].kind # "denied")
    ~> (pc = "idle" /\ result = "StartupTimeout")

\* C6: when start() raises a startup error, the child that this start()
\* spawned is not alive.
C6_FailedStartChildNotAlive ==
  [][(pc \in StartPcs /\ pc' = "idle" /\ result' \in StartupErrors)
       => (process' # None /\ procs'[process'].st = "dead")]_vars

\* C6's case: start() has raised the timeout error.
C6_Witness ==
  /\ pc = "idle" /\ op = "start" /\ result = "StartupTimeout"
  /\ process # None /\ ~Alive(process)

\* C7: in an iteration of the readiness loop in which the child is alive,
\* the endpoint file is its own and a handshake would succeed, start() does
\* not sleep on: it probes and returns.
C7_ProbeIsRetried ==
  [][(pc = "s_loop" /\ elapsed < Timeout /\ Alive(process)
        /\ sockFile = process /\ Handshake)
       => ~(pc' = "s_loop" /\ elapsed' = elapsed + 1)]_vars

\* C8: conflict reclamation sends no kill to a process of supervisor B whose
\* working directory differs from this supervisor's endpoint directory.
C8_NoKillAcrossDirectories ==
  \A i \in 1..Len(ptable) :
    (ptable[i].owner = "B" /\ ptable[i].pcwd # MySocketDir) => ~ptable[i].kill

\* C9 as stated: with cleanup_on_exit, the endpoint file does not exist
\* when stop() returns, from whatever state stop() was called.
C9_NoEndpointAfterAnyStop ==
  [][(cleanup_on_exit /\ pc \in StopPcs /\ pc' \notin StopPcs)
       => sockFile' = NoFile]_vars

\* C9 as amended: with cleanup_on_exit, when a stop() that found a handle
\* held returns, the endpoint file does not exist unless its deletion
\* failed; a stop() that found no handle leaves the file as it was.
C9_NoEndpointAfterStop ==
  [][(cleanup_on_exit /\ pc \in StopPcs /\ pc' \notin StopPcs)
       => IF process # None
            THEN sockFile' = NoFile \/ rmFailed'
            ELSE UNCHANGED sock]_vars

\* C9's case: stop() has returned and the endpoint file that the (still
\* live) child had bound is gone.
C9_Witness ==
  /\ pc = "idle" /\ op = "stop" /\ result = "ok" /\ cleanup_on_exit
  /\ pidAtCall # None /\ procs[pidAtCall].st = "bound"
  /\ sockFile = NoFile /\ ~rmFailed

\* C10: an accessor raises the not-running error exactly when no handle is
\* held or the held child has exited, returns the configuration's string
\* otherwise, and changes nothing of the supervisor or its surroundings.
C10_AccessorsGatedByRunning ==
  [][(pc = "a_entry" /\ pc' = "idle")
       => (/\ result' = IF process # None /\ Alive(process)
                          THEN ConfigGet(op)
                          ELSE "NotRunning"
           /\ UNCHANGED <<process, failed, procs, sock, dirs, nextPid, ptable,
                          rmFailed>>)]_vars

\* C10's case: an accessor has raised with a handle held, the child gone.
C10_Witness ==
  /\ pc = "idle" /\ op \in Accessors /\ result = "NotRunning"
  /\ process # None /\ ~Alive(process)

\* The order of start()'s steps: where a step of start() at pc may lead.
StartOrder(from, to) ==
  CASE from = "s_entry" -> to \in {"idle", "s_reclaim"}
    [] from = "s_reclaim" -> to \in {"s_reclaim", "s_cleanup"}
    [] from = "s_cleanup" -> to = "s_setup"
    [] from = "s_setup" -> to = "s_install"
    [] from = "s_install" -> to \in {"s_spawn", "idle"}
    [] from = "s_spawn" -> to \in {"s_loop", "idle"}
    [] OTHER -> TRUE

\* C11 as stated: start()'s steps come in the order reclamation, endpoint
\* removal, workspace preparation, spawn, and when the removal did not fail
\* no endpoint file exists at the moment the child is spawned (the loop can
\* only see a file created after the spawn).
C11_NoEndpointAtSpawn ==
  [][(pc \in StartPcs /\ pc' # pc)
       => (/\ StartOrder(pc, pc')
           /\ (pc = "s_spawn" /\ pc' = "s_loop" /\ ~rmFailed) => sockFile' = NoFile)]_vars

\* C11 as amended: the steps come in that order; the removal step deletes
\* the endpoint file it finds unless the deletion fails; and when it did not
\* fail, an endpoint file present at the moment of the spawn was created
\* after the removal, by a child of an earlier spawn.
C11_StartOrderAndRemoval ==
  [][(pc \in StartPcs /\ pc' # pc)
       => (/\ StartOrder(pc, pc')
           /\ pc = "s_cleanup" => (sockFile' = NoFile \/ rmFailed')
           /\ (pc = "s_spawn" /\ pc' = "s_loop" /\ ~rmFailed)
                => (sockFile' = NoFile \/ sockFile' \in OwnPids \ {process'}))]_vars

\* C11's case: the readiness loop has begun, the endpoint file that existed
\* when start() was called is gone, and its deletion did not fail.
C11_Witness ==
  /\ pc = "s_loop" /\ elapsed = 0
  /\ sockAtCall # NoFile /\ sockFile = NoFile /\ ~rmFailed

\* What C12 says of a step wait_for_ready takes: at most max_retries probes;
\* it ends only with True or False, never with an error; True at the probe
\* that connected; False exactly when max_retries probes were made and none
\* connected (a probe that raised counts as one); the handle, the processes,
\* the endpoint file and the working directory are left alone.
WaitStepContract ==
  /\ attempt' <= max_retries
  /\ pc' = "idle" =>
       /\ result' \in {"True", "False"}
       /\ result' = "True" => (attempt' = attempt + 1 /\ Handshake)
       /\ result' = "False" <=> (attempt = max_retries /\ attempt' = attempt)
  /\ pc' # "idle" => (pc' = "w_loop" /\ attempt' = attempt + 1)
  /\ UNCHANGED <<process, failed, procs, sock, dirs>>

\* C12 as stated: every step of wait_for_ready(max_retries, delay) keeps
\* that contract, for every max_retries and every delay.
C12_WaitNeverRaises ==
  [][(pc = "w_loop" /\ (pc' # pc \/ attempt' # attempt)) => WaitStepContract]_vars

\* C12 as amended: every step of wait_for_ready(max_retries, delay) called
\* with a delay that is not negative keeps that contract.
C12_WaitNeverRaisesForDelay ==
  [][(pc = "w_loop" /\ delay >= 0 /\ (pc' # pc \/ attempt' # attempt))
       => WaitStepContract]_vars

\* C12's case: wait_for_ready has returned False after max_retries probes,
\* none of which connected.
C12_Witness ==
  /\ pc = "idle" /\ op = "wait_for_ready" /\ result = "False"
  /\ attempt = MaxRetries

\* C13: stop() called with no handle held returns normally at once: no
\* signal is sent to any process, and the handle, the working directory and
\* the endpoint file are as they were.
C13_StopWithoutHandleIsNoOp ==
  [][(pc = "t_entry" /\ process = None /\ pc' # pc)
       => (/\ pc' = "idle"
           /\ result' = "ok"
           /\ UNCHANGED <<process, failed, procs, ptable, sock, dirs, nextPid>>)]_vars

\* C13's case: stop() has returned from a call made with no handle held,
\* with cleanup_on_exit set and an endpoint file on disk.
C13_Witness ==
  /\ pc = "idle" /\ op = "stop" /\ result = "ok"
  /\ pidAtCall = None /\ process = None
  /\ cleanup_on_exit /\ sockAtCall # NoFile /\ sockFile = sockAtCall

\* C14 as stated: at every point at most one child that this supervisor
\* spawned is alive.
C14_AtMostOneLiveChild == Cardinality(LiveChildren) <= 1

\* C14 as amended: at every point every live child of this supervisor other
\* than the one whose handle is held is a child that stop() or the
\* reclamation gave up on: it was sent the forced kill and not reaped, or
\* it could not be signalled.
C14_OnlyAbandonedChildrenBesideHandle ==
  \A p \in LiveChildren : p = process \/ procs[p].kill \/ procs[p].kind = "denied"

\* C14's case: start() has returned with a new child after a stop() whose
\* forced kill of the previous child was not reaped.
C14_Witness ==
  /\ pc = "idle" /\ op \in {"start", "restart"} /\ result = "ok"
  /\ process # None /\ Alive(process)
  /\ \E q \in LiveChildren \ {process} : procs[q].kill

\* C15: a start() that spawned returns successfully only from an iteration
\* of the readiness loop in which the child was alive, the endpoint file
\* existed and a handshake against it succeeded; an iteration that finds
\* the child exited ends start() with the startup error, endpoint file or
\* not.
C15_ReadyMeansAliveFileHandshake ==
  [][(pc \in StartPcs \ {"s_entry"} /\ pc' = "idle")
       => (/\ result' = "ok" =>
                (/\ pc = "s_loop" /\ elapsed < Timeout
                 /\ Alive(process) /\ sockFile # NoFile /\ Handshake)
           /\ (pc = "s_loop" /\ elapsed < Timeout /\ ~Alive(process))
                => result' = "StartupDied")]_vars

\* C15's case: a start() that spawned has returned successfully.
C15_Witness ==
  /\ pc = "idle" /\ op = "start" /\ result = "ok"
  /\ pidAtCall = None /\ process # None

\* C16: in stop() with a handle held, the graceful request is what a live
\* child is sent first; the forced kill is sent only from the graceful wait
\* that expired with the child, already sent the graceful request, still
\* alive; a graceful wait that finds the child exited sends nothing.
C16_GracefulBeforeForced ==
  [][(pc \in StopPcs /\ process # None)
       => (/\ (pc = "t_entry" /\ pc' = "t_wait" /\ Alive(process))
                => (procs'[process].term /\ ~procs'[process].kill)
           /\ (~procs[process].kill /\ procs'[process].kill)
                => (pc = "t_wait" /\ Alive(process) /\ procs[process].term)
           /\ (pc = "t_wait" /\ pc' # pc /\ ~Alive(process))
                => UNCHANGED procs)]_vars

\* C16's case: stop() has sent the forced kill to a child that was sent
\* the graceful request and did not exit.
C16_Witness ==
  /\ pc = "t_killwait" /\ process # None /\ Alive(process)
  /\ procs[process].term /\ procs[process].kill

\* C17: a stop() in progress always comes to its end, with the handle
\* cleared, whatever the child does: neither of its waits is unbounded.
C17_StopTerminates ==
  (pc \in StopPcs) ~> (pc \notin StopPcs /\ process = None)

\* C17's case: stop() has returned although its child took neither the
\* graceful request nor the forced kill.
C17_Witness ==
  /\ pc = "idle" /\ op = "stop" /\ result = "ok" /\ process = None
  /\ pidAtCall # None /\ Alive(pidAtCall)
  /\ procs[pidAtCall].kind = "stuck"
  /\ procs[pidAtCall].term /\ procs[pidAtCall].kill

\* C18: when conflict reclamation is over, every process of the table that
\* matches (a live launcher in the endpoint's directory that may be
\* signalled) has been sent a kill, whatever happened with the processes
\* before it in the table.
C18_ReclaimKillsEveryMatch ==
  pc = "s_cleanup" =>
    \A i \in 1..Len(ptable) : ReapVerdict(ptable[i]) = "kill" => ptable[i].kill

\* The call in progress is not the first to spawn: a child was spawned
\* before it began.
SpawnedBefore ==
  IF pc \in {"s_loop", "s_termwait", "s_killwait"} THEN nextPid > 2 ELSE nextPid > 1

\* C19: a start() called with no handle held after a stop() (a child was
\* spawned before, and only stop() clears the handle) runs the whole
\* sequence in order, and once its child is alive, has bound the endpoint
\* and accepts connections before the timeout, it returns successfully with
\* is_running() true.
C19_StopThenStartRuns ==
  [][(/\ op = "start" /\ pidAtCall = None /\ SpawnedBefore
      /\ pc \in StartPcs /\ (pc' # pc \/ elapsed' # elapsed))
       => (/\ pc = "s_entry" => pc' = "s_reclaim"
           /\ StartOrder(pc, pc')
           /\ (/\ pc = "s_loop" /\ elapsed < Timeout
               /\ Alive(process) /\ sockFile = process /\ sockReady)
                => (/\ pc' = "idle" /\ result' = "ok"
                    /\ process' # None /\ procs'[process'].st \in {"init", "bound"}))]_vars

\* C20: start() is entered and left with the calling process in the same
\* working directory, whichever way it is left: the early return, a
\* successful return, or any error raised after the chdir.
C20_StartRestoresCwd ==
  [][/\ (pc \in StartPcs /\ pc' = "idle") => cwd' = CallerDir
     /\ (pc' = "s_entry" /\ pc # "s_entry") => cwd = CallerDir]_vars

\* C20's case: start() has raised the timeout error, after it had changed
\* into the work directory, and the caller is back where it was.
C20_Witness ==
  /\ pc = "idle" /\ op = "start" /\ result = "StartupTimeout"
  /\ original_cwd = CallerDir /\ cwd = CallerDir

====
